---- MODULE Spec2Model ----
(***************************************************************************)
(* Model of the Make-It-Animatable ComfyUI wrapper: nodes.py (environment  *)
(* setup, the two node types, run_make_it_animatable) and server.py (the   *)
(* subprocess entry point and fbx2glb).                                    *)
(*                                                                         *)
(* External programs (git, uv, pip, huggingface_hub, the inference         *)
(* pipeline, Blender's operators) are modelled by their outcomes, drawn    *)
(* nondeterministically; the wrapper's own control flow is translated      *)
(* statement by statement.  Strings are sequences of one-character         *)
(* strings; paths are written with "/" separators.                         *)
(***************************************************************************)
EXTENDS Integers, Sequences, FiniteSets, TLC

VARIABLES
    env,            \* what is on disk under NODE_DIR (nodes.py:8-10)
    setup_complete, \* setup_complete[0] (nodes.py:120)
    setup,          \* the running call of setup_make_it_animatable
    calls,          \* calls made so far in this process
    srv,            \* the server.py process (its last run, once it has exited)
    run,            \* the running call of a node's run method
    files,          \* the files at the output paths: who wrote each, and how much
    bl              \* Blender during a call of fbx2glb

setupVars == <<env, setup_complete, setup, calls>>
vars == <<env, setup_complete, setup, calls, srv, run, files, bl>>

(***************************************************************************)
(* Bounds                                                                  *)
(***************************************************************************)
MaxCalls == 3     \* calls of setup_make_it_animatable explored on their own
MaxRuns == 2      \* node executions explored
NumPatches == 2   \* patch files in NODE_DIR/patches

(***************************************************************************)
(* nodes.py: the environment on disk                                       *)
(***************************************************************************)
PatchIds == 1..NumPatches

\* A fresh installation: nothing cloned, nothing downloaded, no venv.
\* patch_dir: whether NODE_DIR/patches exists (it is never created here).
FreshEnv(patch_dir) ==
    [ repo      |-> "absent",   \* REPO_DIR: absent, empty (mkdir only), cloned
      patch_dir |-> patch_dir,
      applied   |-> {},         \* patches applied to the working tree
      models    |-> "none",     \* output/best/new: none, partial, full
      bones     |-> "none",     \* data/Mixamo: none, partial, full
      venv      |-> "none" ]    \* venv311: none, bare, pip, installed

\* subprocess.run without check=True: the exit code is not looked at.
run_cmd_unchecked(rc) == "none"

\* run_cmd raises CalledProcessError exactly when the command exits non-zero.
run_cmd(rc) == IF rc # 0 THEN "CalledProcessError" ELSE "none"

\* clone_repo; rc is git clone's exit code.
clone_repo(e, rc) ==
    IF e.repo # "absent"
    THEN [env |-> e, exc |-> "none", met |-> <<>>]
    ELSE [env |-> [e EXCEPT !.repo = IF rc = 0 THEN "cloned" ELSE "empty"],
          exc |-> run_cmd(rc), met |-> <<rc>>]

\* What git apply can answer for one patch: "ok" (exit 0), "benign" (exit
\* non-zero, stderr holds "already exists" or "patch does not apply"),
\* "error" (exit non-zero with any other stderr).
GitApplyAnswers == {"ok", "benign", "error"}

\* The condition of nodes.py:57 on git apply's stderr.
PatchSkipped(answer) == answer = "benign"

\* The loop of apply_patches from patch i on; ans[i] is git apply's answer,
\* met the answers received so far.
RECURSIVE apply_from(_, _, _, _)
apply_from(e, ans, i, met) ==
    IF i > NumPatches THEN [env |-> e, exc |-> "none", met |-> met]
    ELSE IF ans[i] = "ok"
         THEN apply_from([e EXCEPT !.applied = @ \cup {i}], ans, i + 1,
                         Append(met, ans[i]))
    ELSE IF PatchSkipped(ans[i])
         THEN apply_from(e, ans, i + 1, Append(met, ans[i]))
    ELSE [env |-> e, exc |-> "RuntimeError", met |-> Append(met, ans[i])]

apply_patches(e, ans) ==
    IF ~e.patch_dir THEN [env |-> e, exc |-> "none", met |-> <<>>]
    ELSE apply_from(e, ans, 1, <<>>)

\* A patch that is already in the working tree cannot be applied again.
PatchAnswers(e) ==
    {ans \in [PatchIds -> GitApplyAnswers] :
        \A i \in PatchIds : i \in e.applied => ans[i] # "ok"}

\* What snapshot_download can do: finish, or raise having stored nothing or
\* only part of the files.
DownloadAnswers == {"ok", "fail_none", "fail_partial"}

DirAfterDownload(ans) ==
    CASE ans = "ok" -> "full"
      [] ans = "fail_none" -> "none"
      [] ans = "fail_partial" -> "partial"

\* next(dir.iterdir(), None): the directory holds at least one entry.
NonEmpty(dir) == dir # "none"

download_pretrained_models(e, ans) ==
    IF NonEmpty(e.models) THEN [env |-> e, exc |-> "none", met |-> <<>>]
    ELSE [env |-> [e EXCEPT !.models = DirAfterDownload(ans)],
          exc |-> IF ans = "ok" THEN "none" ELSE "DownloadError",
          met |-> <<ans>>]

download_mixamo_bones(e, ans) ==
    IF NonEmpty(e.bones) THEN [env |-> e, exc |-> "none", met |-> <<>>]
    ELSE [env |-> [e EXCEPT !.bones = DirAfterDownload(ans)],
          exc |-> IF ans = "ok" THEN "none" ELSE "DownloadError",
          met |-> <<ans>>]

\* requirements.txt comes with the cloned repository.
ReqFileExists(e) == e.repo = "cloned"
\* venv311/Scripts/pip3.exe is created by ensurepip.
PipExists(e) == e.venv \in {"pip", "installed"}

\* The three commands of ensure_repo_venv; ans names the first that fails.
VenvAnswers == {"ok", "fail_uv", "fail_ensurepip", "fail_pip"}

ensure_repo_venv(e, ans) ==
    IF ~ReqFileExists(e) THEN [env |-> e, exc |-> "none", met |-> <<>>]
    ELSE IF PipExists(e) THEN [env |-> e, exc |-> "none", met |-> <<>>]
    ELSE CASE ans = "fail_uv" ->
                [env |-> e, exc |-> run_cmd(1), met |-> <<ans>>]
           [] ans = "fail_ensurepip" ->
                [env |-> [e EXCEPT !.venv = "bare"], exc |-> run_cmd(1),
                 met |-> <<ans>>]
           [] ans = "fail_pip" ->
                [env |-> [e EXCEPT !.venv = "pip"], exc |-> run_cmd(1),
                 met |-> <<ans>>]
           [] ans = "ok" ->
                [env |-> [e EXCEPT !.venv = "installed"], exc |-> run_cmd(0),
                 met |-> <<ans>>]

(***************************************************************************)
(* nodes.py: setup_make_it_animatable, one statement at a time             *)
(***************************************************************************)
SetupSteps == <<"clone_repo", "apply_patches", "download_pretrained_models",
                "download_mixamo_bones", "ensure_repo_venv">>

\* The answers of the outside world one call of setup may meet, per step.
SetupAnswers(e) ==
    [ clone_repo                 : {0, 128},
      apply_patches              : PatchAnswers(e),
      download_pretrained_models : DownloadAnswers,
      download_mixamo_bones      : DownloadAnswers,
      ensure_repo_venv           : VenvAnswers ]

\* The answers the statement at pc may meet.
AnswersAt(pc, e) ==
    CASE pc = "clone_repo" -> {0, 128}
      [] pc = "apply_patches" -> PatchAnswers(e)
      [] pc \in {"download_pretrained_models", "download_mixamo_bones"} ->
            DownloadAnswers
      [] pc = "ensure_repo_venv" -> VenvAnswers
      [] OTHER -> {"none"}

\* The state of a call: pc is "enter", a step of SetupSteps, "mark",
\* "returned" or "raised"; log lists the steps executed in this call and
\* met, beside each, the answers it received from the outside world.
SetupEntry(e, complete) ==
    [pc |-> "enter", env |-> e, complete |-> complete, log |-> <<>>,
     met |-> <<>>, exc |-> "none"]

\* The flag is not consulted.
NeverSetUp(complete) == FALSE

\* The check of nodes.py:123.
AlreadySetUp(complete) == complete

\* After a step: the except clause of nodes.py:133-135 re-raises.
AfterStep(s, step, r, next) ==
    [s EXCEPT !.env = r.env,
              !.log = Append(@, step),
              !.met = Append(@, r.met),
              !.exc = r.exc,
              !.pc  = IF r.exc # "none" THEN "raised" ELSE next]

SetupStep(s, a) ==
    CASE s.pc = "enter" ->
            IF AlreadySetUp(s.complete) THEN [s EXCEPT !.pc = "returned"]
            ELSE [s EXCEPT !.pc = "clone_repo"]
      [] s.pc = "clone_repo" ->
            AfterStep(s, "clone_repo", clone_repo(s.env, a), "apply_patches")
      [] s.pc = "apply_patches" ->
            AfterStep(s, "apply_patches", apply_patches(s.env, a),
                      "download_pretrained_models")
      [] s.pc = "download_pretrained_models" ->
            AfterStep(s, "download_pretrained_models",
                      download_pretrained_models(s.env, a),
                      "download_mixamo_bones")
      [] s.pc = "download_mixamo_bones" ->
            AfterStep(s, "download_mixamo_bones",
                      download_mixamo_bones(s.env, a), "ensure_repo_venv")
      [] s.pc = "ensure_repo_venv" ->
            AfterStep(s, "ensure_repo_venv", ensure_repo_venv(s.env, a), "mark")
      [] s.pc = "mark" ->
            [s EXCEPT !.complete = TRUE, !.pc = "returned"]
      [] OTHER -> s

SetupDone(s) == s.pc \in {"returned", "raised"}

\* The whole call, run to its end under one choice of answers A.
RECURSIVE setup_make_it_animatable(_, _)
setup_make_it_animatable(s, A) ==
    IF SetupDone(s) THEN s
    ELSE setup_make_it_animatable(
            SetupStep(s, IF s.pc \in DOMAIN A THEN A[s.pc] ELSE "none"), A)

(***************************************************************************)
(* server.py: the entry point, one statement at a time                     *)
(***************************************************************************)
\* The list with the result file among the files to delete.
temp_files_with_result ==
    <<"joints_coarse_path", "normed_path", "sample_path", "bw_path",
      "joints_path", "rest_lbs_path", "rest_vis_path", "anim_vis_path",
      "anim_path">>

\* temp_files_to_delete, in the order of server.py:141-150.
temp_files_to_delete ==
    <<"joints_coarse_path", "normed_path", "sample_path", "bw_path",
      "joints_path", "rest_lbs_path", "rest_vis_path", "anim_vis_path">>

Range(seq) == {seq[i] : i \in 1..Len(seq)}

\* The path attributes of the pipeline's DB that server.py reads.  Each
\* attribute that is set names a file of its own.
TempFields == {"joints_coarse_path", "normed_path", "sample_path", "bw_path",
               "joints_path", "rest_lbs_path", "rest_vis_path", "anim_vis_path"}
DBFields == TempFields \cup {"anim_path"}

\* Suffixes db.anim_path may carry, and str.lower on them.
AnimSuffixes == {".fbx", ".FBX", ".glb", ".blend"}
Lower(suffix) == IF suffix = ".FBX" THEN ".fbx" ELSE suffix

\* --kwargs as text: json is what the text spells, "object" (with its
\* members, each a key and a literal), "array", or "garbage" (not JSON).
JsonText(members) == [json |-> "object", members |-> members]
JsonArray == [json |-> "array", members |-> <<>>]
JsonGarbage == [json |-> "garbage", members |-> <<>>]

\* json.loads raises on text that is not JSON.
JsonLoadsRaises(text) == text.json = "garbage"
\* run_once(..., **kwargs) raises TypeError unless kwargs is a mapping.
IsMapping(text) == text.json = "object"

NoServer ==
    [pc |-> "none", argv |-> <<>>, set |-> {}, suffix |-> ".fbx", disk |-> {},
     unlinked |-> {}, unlink_failed |-> {}, wrote |-> "no", rc |-> -1,
     stderr |-> "", log |-> <<>>, raised_at |-> "none"]

\* The process as it reaches line 135 with --input, --output, --kwargs parsed.
\*   set:      the DB attributes that are set
\*   disk:     the attributes whose file exists
\*   unlinked: the attributes whose file the cleanup loop removed
\*   unlink_failed: the attributes whose unlink raised
\*   wrote:    what is at --output: "no", "partial" or "full"
\*   rc:       the exit code, -1 while running
ServerEntry(input, output, kwargs) ==
    [pc |-> "loads", argv |-> [input |-> input, output |-> output, kwargs |-> kwargs],
     set |-> {}, suffix |-> ".fbx", disk |-> {}, unlinked |-> {},
     unlink_failed |-> {}, wrote |-> "no", rc |-> -1, stderr |-> "",
     log |-> <<>>, raised_at |-> "none"]

\* An exception that is logged and passed over: the script runs to its end.
RaiseSwallowed(s, step) ==
    [s EXCEPT !.pc = "end", !.log = Append(@, step), !.raised_at = step]

\* An exception inside the try block: control goes to line 168.
Raise(s, step) ==
    [s EXCEPT !.pc = "except", !.log = Append(@, step), !.raised_at = step]
Goto(s, step, next) == [s EXCEPT !.pc = next, !.log = Append(@, step)]

\* The exit code of the except clause (server.py:171).
ExceptExitCode == 1

\* What the pipeline may leave behind: whether it raised, the attributes it
\* set (their files written), the suffix of db.anim_path.
PipelineAnswers ==
    [raised : BOOLEAN, set : SUBSET DBFields, suffix : AnimSuffixes]

\* The loop of server.py:152-157 from index i on; fails: the attributes whose
\* unlink raises.
RECURSIVE cleanup_from(_, _, _)
cleanup_from(s, fails, i) ==
    IF i > Len(temp_files_to_delete) THEN s
    ELSE LET f == temp_files_to_delete[i] IN
         IF f \notin s.set THEN cleanup_from(s, fails, i + 1)
         ELSE IF f \in fails
              THEN cleanup_from([s EXCEPT !.unlink_failed = @ \cup {f}],
                                fails, i + 1)
         ELSE cleanup_from([s EXCEPT !.disk = @ \ {f},
                                     !.unlinked = @ \cup {f}], fails, i + 1)

\* fbx2glb as the entry point sees it: "raise_before" (an operator raises
\* before the export), "raise_after" (the export wrote the file, the print
\* of line 123 raises), "ok".
Fbx2GlbAnswers == {"ok", "raise_before", "raise_after"}

\* mkdir and shutil.move: "raise_before" (nothing at the destination),
\* "raise_partial" (a copy across file systems broke off), "raise_after"
\* (copied, the source could not be removed), "ok".
MoveAnswers == {"ok", "raise_before", "raise_partial", "raise_after"}

ServerAnswersAt(s) ==
    CASE s.pc = "pipeline" -> PipelineAnswers
      [] s.pc = "cleanup" -> SUBSET (s.disk \cap TempFields)
      [] s.pc = "fbx2glb" ->
            IF "anim_path" \in s.disk THEN Fbx2GlbAnswers ELSE {"raise_before"}
      [] s.pc = "move" ->
            IF "anim_path" \in s.disk THEN MoveAnswers ELSE {"raise_before"}
      [] OTHER -> {"none"}

ServerStep(s, a) ==
    CASE s.pc = "loads" ->       \* line 136
            IF JsonLoadsRaises(s.argv.kwargs) THEN Raise(s, "loads")
            ELSE Goto(s, "loads", "pipeline")
      [] s.pc = "pipeline" ->    \* lines 137-138
            LET n == [s EXCEPT !.set = a.set, !.disk = a.set, !.suffix = a.suffix]
            IN  IF ~IsMapping(s.argv.kwargs) THEN Raise(s, "pipeline")
                ELSE IF a.raised THEN Raise(n, "pipeline")
                ELSE Goto(n, "pipeline", "cleanup")
      [] s.pc = "cleanup" ->     \* lines 141-157
            Goto(cleanup_from(s, a, 1), "cleanup", "result")
      [] s.pc = "result" ->      \* lines 159-161
            IF "anim_path" \notin s.set THEN Raise(s, "result")
            ELSE IF Lower(s.suffix) = ".fbx" THEN Goto(s, "result", "fbx2glb")
            ELSE Goto(s, "result", "move")
      [] s.pc = "fbx2glb" ->     \* line 163
            CASE a = "ok" -> Goto([s EXCEPT !.wrote = "full"], "fbx2glb", "end")
              [] a = "raise_after" -> Raise([s EXCEPT !.wrote = "full"], "fbx2glb")
              [] OTHER -> Raise(s, "fbx2glb")
      [] s.pc = "move" ->        \* lines 165-166
            CASE a = "ok" ->
                    Goto([s EXCEPT !.wrote = "full", !.disk = @ \ {"anim_path"}],
                         "move", "end")
              [] a = "raise_after" -> Raise([s EXCEPT !.wrote = "full"], "move")
              [] a = "raise_partial" -> Raise([s EXCEPT !.wrote = "partial"], "move")
              [] OTHER -> Raise(s, "move")
      [] s.pc = "except" ->      \* lines 168-171
            [s EXCEPT !.pc = "exited", !.stderr = "traceback",
                      !.rc = ExceptExitCode, !.log = Append(@, "except")]
      [] s.pc = "end" ->         \* the script ends
            [s EXCEPT !.pc = "exited", !.rc = 0]
      [] OTHER -> s

\* The whole run, to the exit, under one choice of answers A.
RECURSIVE server_main(_, _)
server_main(s, A) ==
    IF s.pc = "exited" THEN s
    ELSE server_main(ServerStep(s, IF s.pc \in DOMAIN A THEN A[s.pc] ELSE "none"), A)

(***************************************************************************)
(* server.py: fbx2glb, one statement at a time                             *)
(***************************************************************************)
\* A scene object: where it came from ("scene": there before the call,
\* "original": the file at original_glb, "fbx": the file at input_fbx), its
\* material slots ("None": an empty slot), the transforms applied to it.
Object(id, type, from, materials) ==
    [id |-> id, type |-> type, from |-> from, materials |-> materials,
     applied |-> {}, selected |-> FALSE]

\* What may be in the scene when fbx2glb is called.
Scenes ==
    { <<>>,
      <<Object("Cube", "MESH", "scene", <<"Material">>),
        Object("Camera", "CAMERA", "scene", <<>>)>> }

\* What the file at original_glb may hold.
OriginalFiles ==
    { <<Object("body", "MESH", "original", <<"skin">>)>>,
      <<Object("body", "MESH", "original", <<"skin", "cloth">>),
        Object("hat", "MESH", "original", <<"cloth", "None", "felt">>),
        Object("rig", "ARMATURE", "original", <<>>)>>,
      <<Object("body", "MESH", "original", <<>>)>> }

\* What the file at input_fbx may hold.
FbxFiles ==
    { <<Object("Armature", "ARMATURE", "fbx", <<>>),
        Object("character", "MESH", "fbx", <<"fbx_material">>)>>,
      <<Object("character", "MESH", "fbx", <<"fbx_material", "fbx_other">>),
        Object("Armature", "ARMATURE", "fbx", <<>>),
        Object("extra", "MESH", "fbx", <<>>),
        Object("locator", "EMPTY", "fbx", <<>>)>>,
      <<Object("character", "MESH", "fbx", <<"fbx_material">>)>> }

NoBlender ==
    [pc |-> "none", before |-> <<>>, scene |-> <<>>, clear_scene |-> TRUE,
     original_glb |-> "None", original |-> <<>>,
     fbx |-> <<>>, original_materials |-> <<>>, exported |-> <<>>, exports |-> 0,
     log |-> <<>>]

\* fbx2glb(input_fbx, output_glb, original_glb) is entered; original_glb is
\* "None", "missing" (no such file) or "exists".  clear_scene keeps its
\* default: the one call, server.py:163, does not pass it.
Fbx2GlbEntry(scene, original_glb, original, fbx) ==
    [pc |-> "clear_scene", before |-> scene, scene |-> scene, clear_scene |-> TRUE,
     original_glb |-> original_glb,
     original |-> original, fbx |-> fbx, original_materials |-> <<>>,
     exported |-> <<>>, exports |-> 0, log |-> <<>>]

\* select_all(action='SELECT') and object.delete: the scene is emptied.
DeleteAll(scene) == <<>>

\* The condition of server.py:45.
HasOriginal(original_glb) == original_glb = "exists"

\* server.py:54-59: the dict keeps one entry per name, in the order in which
\* the names are first met; empty slots are left out.
RECURSIVE CollectSlots(_, _)
CollectSlots(dict, slots) ==
    IF slots = <<>> THEN dict
    ELSE CollectSlots(
            IF Head(slots) = "None" \/ Head(slots) \in Range(dict) THEN dict
            ELSE Append(dict, Head(slots)),
            Tail(slots))
RECURSIVE CollectMaterials(_, _)
CollectMaterials(dict, objects) ==
    IF objects = <<>> THEN dict
    ELSE CollectMaterials(
            IF Head(objects).type = "MESH"
            THEN CollectSlots(dict, Head(objects).materials) ELSE dict,
            Tail(objects))

\* The collected materials are appended to the slots the mesh came with.
TransplantedOntoOwn(own, original_materials) == own \o original_materials

\* server.py:79-94 for one FBX mesh: its slots are cleared, then every
\* collected material is appended.
TransplantedMaterials(own, original_materials) == original_materials

ApplyMaterials(scene, original_materials) ==
    [i \in 1..Len(scene) |->
        IF scene[i].type = "MESH"
        THEN [scene[i] EXCEPT !.materials =
                    TransplantedMaterials(@, original_materials)]
        ELSE scene[i]]

\* The loops of server.py:105-115 over the objects of one type: each is
\* selected in turn, and transform_apply(location, rotation, scale) acts on
\* everything selected so far.
TransformApplied == {"location", "rotation", "scale"}

RECURSIVE ApplyLoop(_, _, _)
ApplyLoop(b, type, i) ==
    IF i > Len(b.scene) THEN b
    ELSE IF b.scene[i].type # type THEN ApplyLoop(b, type, i + 1)
    ELSE LET sel == [b.scene EXCEPT ![i].selected = TRUE]
             done == [j \in 1..Len(sel) |->
                        IF sel[j].selected
                        THEN [sel[j] EXCEPT !.applied = @ \cup TransformApplied]
                        ELSE sel[j]]
         IN  ApplyLoop([b EXCEPT !.scene = done,
                                 !.log = Append(@, <<"transform_apply", sel[i].id>>)],
                       type, i + 1)

Deselect(scene) == [i \in 1..Len(scene) |-> [scene[i] EXCEPT !.selected = FALSE]]

Did(b, op, next) == [b EXCEPT !.pc = next, !.log = Append(@, <<op, "">>)]
Threw(b, op) == [b EXCEPT !.pc = "raised", !.log = Append(@, <<op, "">>)]

\* The operators that read or write a file, or act on the scene, may raise.
BlenderAnswersAt(pc) ==
    IF pc \in {"import_gltf", "import_fbx", "transform_armatures",
               "transform_meshes", "export", "print"}
    THEN {"ok", "raise"} ELSE {"ok"}

Fbx2GlbStep(b, a) ==
    CASE b.pc = "clear_scene" ->          \* lines 37-42
            Did([b EXCEPT !.scene = IF b.clear_scene THEN DeleteAll(@) ELSE @],
                "clear_scene",
                IF HasOriginal(b.original_glb) THEN "import_gltf" ELSE "import_fbx")
      [] b.pc = "import_gltf" ->          \* lines 46-47
            IF a = "raise" THEN Threw(b, "import_gltf")
            ELSE Did([b EXCEPT !.scene = @ \o b.original], "import_gltf", "collect")
      [] b.pc = "collect" ->              \* lines 50-59
            Did([b EXCEPT !.original_materials = CollectMaterials(<<>>, b.scene)],
                "collect", "clear_original")
      [] b.pc = "clear_original" ->       \* lines 62-66
            Did([b EXCEPT !.scene = DeleteAll(@)], "clear_original", "import_fbx")
      [] b.pc = "import_fbx" ->           \* lines 69 and 98
            IF a = "raise" THEN Threw(b, "import_fbx")
            ELSE Did([b EXCEPT !.scene = @ \o b.fbx], "import_fbx",
                     IF HasOriginal(b.original_glb) THEN "materials"
                     ELSE "transform_armatures")
      [] b.pc = "materials" ->            \* lines 72-94
            Did([b EXCEPT !.scene = ApplyMaterials(@, b.original_materials)],
                "materials", "transform_armatures")
      [] b.pc = "transform_armatures" ->  \* lines 101-109
            IF a = "raise" THEN Threw(b, "transform_armatures")
            ELSE [ApplyLoop([b EXCEPT !.scene = Deselect(@)], "ARMATURE", 1)
                    EXCEPT !.pc = "transform_meshes"]
      [] b.pc = "transform_meshes" ->     \* lines 111-115
            IF a = "raise" THEN Threw(b, "transform_meshes")
            ELSE [ApplyLoop([b EXCEPT !.scene = Deselect(@)], "MESH", 1)
                    EXCEPT !.pc = "export"]
      [] b.pc = "export" ->               \* lines 117-121
            IF a = "raise" THEN Threw(b, "export")
            ELSE Did([b EXCEPT !.exported = b.scene, !.exports = @ + 1],
                     "export", "print")
      [] b.pc = "print" ->                \* line 123
            IF a = "raise" THEN Threw(b, "print")
            ELSE Did(b, "print", "returned")
      [] OTHER -> b

(***************************************************************************)
(* nodes.py: strings, paths and the command line                          *)
(***************************************************************************)
Whitespace == {" "}

\* str.strip()
RECURSIVE lstrip(_)
lstrip(s) == IF s # <<>> /\ s[1] \in Whitespace THEN lstrip(Tail(s)) ELSE s
RECURSIVE rstrip(_)
rstrip(s) ==
    IF s # <<>> /\ s[Len(s)] \in Whitespace THEN rstrip(SubSeq(s, 1, Len(s) - 1))
    ELSE s
strip(s) == rstrip(lstrip(s))

\* str.rfind, counting from 1 (0: not found).
rfind(s, ch) ==
    LET hits == {i \in 1..Len(s) : s[i] = ch}
    IN  IF hits = {} THEN 0 ELSE CHOOSE i \in hits : \A j \in hits : j <= i

\* pathlib: PurePath.name, .suffix, .with_suffix("")
PathName(p) == SubSeq(p, rfind(p, "/") + 1, Len(p))
PathSuffix(p) ==
    LET name == PathName(p)
        i == rfind(name, ".")
    IN  IF 1 < i /\ i < Len(name) THEN SubSeq(name, i, Len(name)) ELSE <<>>
WithoutSuffix(p) == SubSeq(p, 1, Len(p) - Len(PathSuffix(p)))

\* Python values that go into node_kwargs, and their JSON literals.
PyBool(b) == [t |-> "bool", v |-> IF b THEN "True" ELSE "False"]
PyFloat(repr) == [t |-> "float", v |-> repr]
Truthy(value) == value.v \notin {"False", "0.0"}

\* json.dumps of one value; json.loads of one literal.
JsonLiteral(value) ==
    IF value.t = "bool" THEN (IF value.v = "True" THEN "true" ELSE "false")
    ELSE value.v
JsonValue(lit) ==
    CASE lit = "true" -> PyBool(TRUE)
      [] lit = "false" -> PyBool(FALSE)
      [] OTHER -> PyFloat(lit)

\* json.dumps(node_kwargs): node_kwargs is a sequence of <<key, value>>.
json_dumps(kwargs) ==
    JsonText([i \in 1..Len(kwargs) |->
                [key |-> kwargs[i][1], lit |-> JsonLiteral(kwargs[i][2])]])
\* json.loads of an object: a function from its keys to their values.
json_loads(text) ==
    LET m == text.members
        keys == {m[i].key : i \in 1..Len(m)}
        last(k) == CHOOSE i \in 1..Len(m) :
                        m[i].key = k /\ \A j \in 1..Len(m) : m[j].key = k => j <= i
    IN  [k \in keys |-> JsonValue(m[last(k)].lit)]

\* node_kwargs.get(key, default)
KwargsGet(kwargs, key, default) ==
    LET hits == {i \in 1..Len(kwargs) : kwargs[i][1] = key}
    IN  IF hits = {} THEN default ELSE kwargs[CHOOSE i \in hits : TRUE][2]

\* The keyword arguments with use_normals and weight_postprocess crossed.
RigKwargsCrossed(a) ==
    << <<"is_gs", PyBool(FALSE)>>,
       <<"no_fingers", PyBool(a.no_fingers)>>,
       <<"input_normal", PyBool(a.weight_postprocess)>>,
       <<"bw_fix", PyBool(a.use_normals)>>,
       <<"inplace", PyBool(FALSE)>> >>

\* The keyword arguments of MakeItAnimatableRig.run (nodes.py:206).
RigKwargs(a) ==
    << <<"is_gs", PyBool(FALSE)>>,
       <<"no_fingers", PyBool(a.no_fingers)>>,
       <<"input_normal", PyBool(a.use_normals)>>,
       <<"bw_fix", PyBool(a.weight_postprocess)>>,
       <<"inplace", PyBool(FALSE)>> >>

\* The keyword arguments of MakeItAnimatableRigGS.run (nodes.py:249).
RigGSKwargs(a) ==
    << <<"is_gs", PyBool(TRUE)>>,
       <<"opacity_threshold", PyFloat(a.opacity_threshold)>>,
       <<"no_fingers", PyBool(a.no_fingers)>>,
       <<"input_normal", PyBool(a.use_normals)>>,
       <<"bw_fix", PyBool(a.weight_postprocess)>>,
       <<"inplace", PyBool(FALSE)>> >>

NodeKwargs(node, a) == IF node = "MakeItAnimatableRigGS" THEN RigGSKwargs(a) ELSE RigKwargs(a)

\* nodes.py:144-146
RiggedSuffix(kwargs) ==
    IF Truthy(KwargsGet(kwargs, "is_gs", PyBool(FALSE)))
    THEN <<"_", "r", "i", "g", "g", "e", "d", ".", "b", "l", "e", "n", "d">>
    ELSE <<"_", "r", "i", "g", "g", "e", "d", ".", "g", "l", "b">>

\* nodes.py:148
OutputFile(input_path, kwargs) == WithoutSuffix(input_path) \o RiggedSuffix(kwargs)

\* nodes.py:152-157
Cmd(input_path, output_file, kwargs) ==
    <<"python", "server.py", "--input", input_path, "--output", output_file,
      "--kwargs", json_dumps(kwargs)>>

\* argparse in server.py:129-133 on such a command line.
ParseArgs(cmd) ==
    [input  |-> IF cmd[3] = "--input" THEN cmd[4] ELSE <<>>,
     output |-> IF cmd[5] = "--output" THEN cmd[6] ELSE <<>>,
     kwargs |-> IF cmd[7] = "--kwargs" THEN cmd[8] ELSE JsonText(<<>>)]

(***************************************************************************)
(* nodes.py: the two nodes' run and run_make_it_animatable                 *)
(***************************************************************************)
\* The file system the nodes look at: regular files and a directory.
RegularFiles ==
    { <<"m", ".", "g", "l", "b">>,
      <<"d", ".", "x", "/", "m">>,
      <<"a", ".", "b", ".", "p", "l", "y">>,
      <<".", "m">> }
Directories == { <<"d", ".", "x">> }

\* Strings a user may type into input_model_path.
InputStrings ==
    { <<>>, <<" ">>, <<"x">>, <<"d", ".", "x">>,
      <<" ", "m", ".", "g", "l", "b", " ">>,
      <<"d", ".", "x", "/", "m">>,
      <<"a", ".", "b", ".", "p", "l", "y">>,
      <<".", "m">> }

OpacityValues == {"0.01", "0.5"}

RigArgs ==
    [input_model_path : InputStrings, no_fingers : BOOLEAN,
     use_normals : BOOLEAN, weight_postprocess : BOOLEAN]
RigGSArgs ==
    [input_model_path : InputStrings, opacity_threshold : OpacityValues,
     no_fingers : BOOLEAN, use_normals : BOOLEAN, weight_postprocess : BOOLEAN]

\* os.path.isfile
isfile(p, fs) == p \in RegularFiles \/ p \in DOMAIN fs
\* Path.exists on an output path
exists(p, fs) == p \in DOMAIN fs \/ p \in RegularFiles \/ p \in Directories

NoFiles == << >>
NoRun ==
    [pc |-> "idle", node |-> "none", args |-> <<>>, input_path |-> <<>>,
     kwargs |-> <<>>, output_file |-> <<>>, cmd |-> <<>>, launched |-> FALSE,
     deleted |-> {}, result |-> <<>>, exc |-> "none"]

(***************************************************************************)
(* The initial state: a fresh installation, nothing running              *)
(***************************************************************************)
InitSetup ==
    /\ env \in {FreshEnv(b) : b \in BOOLEAN}
    /\ setup_complete = FALSE
    /\ setup = [pc |-> "idle", log |-> <<>>, met |-> <<>>, exc |-> "none"]
    /\ calls = 0
    /\ srv = NoServer
    /\ run = NoRun
    /\ files = NoFiles
    /\ bl = NoBlender

(***************************************************************************)
(* Installing a step of setup_make_it_animatable into the variables       *)
(***************************************************************************)
SetupCur ==
    [pc |-> setup.pc, env |-> env, complete |-> setup_complete,
     log |-> setup.log, met |-> setup.met, exc |-> setup.exc]

SetupInstall(n) ==
    /\ env' = n.env
    /\ setup_complete' = n.complete
    /\ setup' = [pc |-> n.pc, log |-> n.log, met |-> n.met, exc |-> n.exc]

(***************************************************************************)
(* The nodes, called by the host one after the other                       *)
(***************************************************************************)
\* The answers of setup's outside world met by a node's run: every step
\* succeeds (a patch already in the tree is skipped), or git clone fails, or
\* pip install fails.
SetupAllOk(e) ==
    [ clone_repo                 |-> 0,
      apply_patches              |-> [i \in PatchIds |->
                                        IF i \in e.applied THEN "benign" ELSE "ok"],
      download_pretrained_models |-> "ok",
      download_mixamo_bones      |-> "ok",
      ensure_repo_venv           |-> "ok" ]
RunSetupAnswers(e) ==
    { SetupAllOk(e),
      [SetupAllOk(e) EXCEPT !.clone_repo = 128],
      [SetupAllOk(e) EXCEPT !.ensure_repo_venv = "fail_pip"] }

\* The answers of the subprocess's outside world met from a node: the
\* pipeline raises having set nothing, or completes with every attribute set
\* or with db.anim_path unset; no unlink raises (the cleanup decides neither
\* the exit code nor what is at --output).
RunServerAnswers ==
    { [pipeline |-> [raised |-> TRUE, set |-> {}, suffix |-> ".fbx"],
       cleanup |-> {}, fbx2glb |-> "ok", move |-> "ok"],
      [pipeline |-> [raised |-> FALSE, set |-> TempFields, suffix |-> ".fbx"],
       cleanup |-> {}, fbx2glb |-> "ok", move |-> "ok"] }
    \cup { [pipeline |-> [raised |-> FALSE, set |-> DBFields, suffix |-> ".fbx"],
           cleanup |-> {}, fbx2glb |-> x, move |-> "ok"] : x \in Fbx2GlbAnswers }
    \cup { [pipeline |-> [raised |-> FALSE, set |-> DBFields, suffix |-> ".blend"],
           cleanup |-> {}, fbx2glb |-> "ok", move |-> x] : x \in MoveAnswers }

\* venv311/Scripts/python is there once uv has created the venv.
PythonExists(e) == e.venv # "none"

\* run of either node up to the end of setup and the strip (nodes.py:198-200).
NodeRun(node, Args) ==
    /\ run.pc = "idle"
    /\ calls < MaxRuns
    /\ calls' = calls + 1
    /\ \E A \in RunSetupAnswers(env) :
          LET s == setup_make_it_animatable(SetupEntry(env, setup_complete), A)
          IN  /\ SetupInstall([s EXCEPT !.met = <<>>])
              /\ \E a \in Args :
                    run' = [NoRun EXCEPT
                            !.node = node, !.args = a,
                            !.exc = s.exc,
                            !.input_path = IF s.pc = "raised" THEN <<>>
                                           ELSE strip(a.input_model_path),
                            !.pc = IF s.pc = "raised" THEN "raised" ELSE "check_input"]
    /\ srv' = NoServer
    /\ UNCHANGED <<files, bl>>

RigRun == NodeRun("MakeItAnimatableRig", RigArgs)
RigGSRun == NodeRun("MakeItAnimatableRigGS", RigGSArgs)

\* The check for an empty path alone.
InputErrorEmptyOnly(input_path, fs) ==
    IF input_path = <<>> THEN "RuntimeError" ELSE "none"

\* nodes.py:201-204 and 246-247
InputError(input_path, fs) ==
    IF input_path = <<>> THEN "RuntimeError"
    ELSE IF ~isfile(input_path, fs) THEN "RuntimeError"
    ELSE "none"

CheckInput ==
    /\ run.pc = "check_input"
    /\ LET err == InputError(run.input_path, files)
       IN  run' = [run EXCEPT !.exc = err,
                              !.kwargs = IF err = "none" THEN NodeKwargs(run.node, run.args)
                                         ELSE <<>>,
                              !.pc = IF err = "none" THEN "prepare" ELSE "raised"]
    /\ UNCHANGED <<setupVars, srv, files, bl>>

Without(fs, p) == [q \in DOMAIN fs \ {p} |-> fs[q]]
With(fs, p, x) == [q \in DOMAIN fs \cup {p} |-> IF q = p THEN x ELSE fs[q]]

\* The output path is left as it is.
NeverUnlink(output_file, fs) == FALSE

\* Whether run_make_it_animatable removes what is at the output path first
\* (nodes.py:149).
MustUnlink(output_file, fs) == exists(output_file, fs)

\* run_make_it_animatable up to the unlink (nodes.py:138-150); unlink may
\* raise (the file is open elsewhere, the path is a directory).
PrepareOutput ==
    /\ run.pc = "prepare"
    /\ LET out == OutputFile(run.input_path, run.kwargs) IN
       IF MustUnlink(out, files)
       THEN \E ok \in BOOLEAN :
              IF ok /\ out \in DOMAIN files
              THEN /\ files' = Without(files, out)
                   /\ run' = [run EXCEPT !.output_file = out, !.pc = "subprocess",
                                         !.deleted = @ \cup {out}]
              ELSE /\ files' = files
                   /\ run' = [run EXCEPT !.output_file = out, !.pc = "raised",
                                         !.exc = "OSError"]
       ELSE /\ files' = files
            /\ run' = [run EXCEPT !.output_file = out, !.pc = "subprocess"]
    /\ UNCHANGED <<setupVars, srv, bl>>

\* subprocess.run(cmd, capture_output=True, text=True) (nodes.py:152-158):
\* the whole run of server.py, or OSError when the interpreter is missing.
Subprocess ==
    /\ run.pc = "subprocess"
    /\ LET cmd == Cmd(run.input_path, run.output_file, run.kwargs) IN
       IF ~PythonExists(env)
       THEN /\ run' = [run EXCEPT !.cmd = cmd, !.pc = "raised", !.exc = "OSError"]
            /\ UNCHANGED <<srv, files>>
       ELSE \E A \in RunServerAnswers :
              LET a == ParseArgs(cmd)
                  end == server_main(ServerEntry(a.input, a.output, a.kwargs), A)
              IN  /\ srv' = end
                  /\ files' = IF end.wrote = "no" THEN files
                              ELSE With(files, a.output,
                                        [fresh |-> TRUE, content |-> end.wrote])
                  /\ run' = [run EXCEPT !.cmd = cmd, !.launched = TRUE, !.pc = "check_output"]
    /\ UNCHANGED <<setupVars, bl>>

\* The test of nodes.py:160.
OutputMissing(output_file, fs, result) == ~exists(output_file, fs)

\* nodes.py:160-166
CheckOutput ==
    /\ run.pc = "check_output"
    /\ IF OutputMissing(run.output_file, files, srv)
       THEN run' = [run EXCEPT !.pc = "raised", !.exc = "RuntimeError"]
       ELSE run' = [run EXCEPT !.pc = "returned", !.result = run.output_file]
    /\ UNCHANGED <<setupVars, srv, files, bl>>

\* run has returned or raised: its frame and the subprocess are gone, and
\* what it wrote is from now on the result of an earlier run.
Finish ==
    /\ run.pc \in {"returned", "raised"}
    /\ run' = NoRun
    /\ srv' = NoServer
    /\ files' = [p \in DOMAIN files |-> [files[p] EXCEPT !.fresh = FALSE]]
    /\ UNCHANGED <<setupVars, bl>>

Init == InitSetup

Next ==
    \/ RigRun
    \/ RigGSRun
    \/ CheckInput
    \/ PrepareOutput
    \/ Subprocess
    \/ CheckOutput
    \/ Finish

Spec == Init /\ [][Next]_vars

(***************************************************************************)
(* Calls of setup_make_it_animatable alone, statement by statement         *)
(***************************************************************************)
SetupAt(pc) ==
    /\ setup.pc = pc
    /\ \E a \in AnswersAt(pc, env) : SetupInstall(SetupStep(SetupCur, a))
    /\ UNCHANGED <<calls, srv, run, files, bl>>

CallSetup ==
    /\ setup.pc \in {"idle", "returned", "raised"}
    /\ calls < MaxCalls
    /\ calls' = calls + 1
    /\ SetupInstall(SetupEntry(env, setup_complete))
    /\ UNCHANGED <<srv, run, files, bl>>

SetupEnter == SetupAt("enter")
CloneRepo == SetupAt("clone_repo")
ApplyPatches == SetupAt("apply_patches")
DownloadPretrainedModels == SetupAt("download_pretrained_models")
DownloadMixamoBones == SetupAt("download_mixamo_bones")
EnsureRepoVenv == SetupAt("ensure_repo_venv")
SetupMark == SetupAt("mark")

NextSetup ==
    \/ CallSetup
    \/ SetupEnter
    \/ CloneRepo
    \/ ApplyPatches
    \/ DownloadPretrainedModels
    \/ DownloadMixamoBones
    \/ EnsureRepoVenv
    \/ SetupMark

SpecSetup == InitSetup /\ [][NextSetup]_vars

(***************************************************************************)
(* server.py run from a command line                                       *)
(***************************************************************************)
\* Command lines: an input file, an output path, --kwargs.
CliKwargs == {JsonText(<<>>), JsonArray, JsonGarbage}

ServerAt(pc) ==
    /\ srv.pc = pc
    /\ \E a \in ServerAnswersAt(srv) : srv' = ServerStep(srv, a)
    /\ UNCHANGED <<setupVars, run, files, bl>>

StartServer ==
    /\ srv.pc \in {"none"}
    /\ \E k \in CliKwargs : srv' = ServerEntry("in", "out", k)
    /\ UNCHANGED <<setupVars, run, files, bl>>

JsonLoads == ServerAt("loads")
RunOnce == ServerAt("pipeline")
Cleanup == ServerAt("cleanup")
ResultPath == ServerAt("result")
Fbx2Glb == ServerAt("fbx2glb")
Move == ServerAt("move")
Except == ServerAt("except")
ScriptEnd == ServerAt("end")

NextServer ==
    \/ StartServer
    \/ JsonLoads
    \/ RunOnce
    \/ Cleanup
    \/ ResultPath
    \/ Fbx2Glb
    \/ Move
    \/ Except
    \/ ScriptEnd

SpecServer == InitSetup /\ [][NextServer]_vars

(***************************************************************************)
(* fbx2glb called on its own                                               *)
(***************************************************************************)
CallFbx2Glb ==
    /\ bl.pc = "none"
    /\ \E scene \in Scenes, original_glb \in {"None", "missing", "exists"},
          fbx \in FbxFiles, original \in OriginalFiles :
            bl' = Fbx2GlbEntry(scene, original_glb,
                               IF original_glb = "exists" THEN original ELSE <<>>, fbx)
    /\ UNCHANGED <<setupVars, srv, run, files>>

BlenderAt(pc) ==
    /\ bl.pc = pc
    /\ \E a \in BlenderAnswersAt(pc) : bl' = Fbx2GlbStep(bl, a)
    /\ UNCHANGED <<setupVars, srv, run, files>>

ClearScene == BlenderAt("clear_scene")
ImportGltf == BlenderAt("import_gltf")
CollectOriginalMaterials == BlenderAt("collect")
ClearOriginal == BlenderAt("clear_original")
ImportFbx == BlenderAt("import_fbx")
TransplantMaterials == BlenderAt("materials")
TransformArmatures == BlenderAt("transform_armatures")
TransformMeshes == BlenderAt("transform_meshes")
ExportGltf == BlenderAt("export")
PrintConverted == BlenderAt("print")

NextFbx ==
    \/ CallFbx2Glb
    \/ ClearScene
    \/ ImportGltf
    \/ CollectOriginalMaterials
    \/ ClearOriginal
    \/ ImportFbx
    \/ TransplantMaterials
    \/ TransformArmatures
    \/ TransformMeshes
    \/ ExportGltf
    \/ PrintConverted

SpecFbx == InitSetup /\ [][NextFbx]_vars

(***************************************************************************)
(* Claims about setup_make_it_animatable (under SpecSetup)                 *)
(***************************************************************************)
IsPrefix(a, b) == Len(a) <= Len(b) /\ \A i \in 1..Len(a) : a[i] = b[i]

\* The steps of a call run in the order of the source, each at most once.
SetupOrderly == IsPrefix(setup.log, SetupSteps)

\* The call stopped at its k-th step and the exception reached the caller.
AbortedAt(k) ==
    /\ k = Len(setup.log)
    /\ setup.pc = "raised"
    /\ setup.exc # "none"
    /\ ~setup_complete

\* The outside world refused something at the k-th step of this call: a
\* command exited non-zero, a download raised, git apply rejected a patch.
Refused(k) ==
    LET m == setup.met[k] IN
    IF setup.log[k] = "apply_patches"
    THEN \E i \in 1..Len(m) : m[i] # "ok"
    ELSE IF setup.log[k] = "clone_repo" THEN m # <<>> /\ m[1] # 0
    ELSE m # <<>> /\ m[1] # "ok"

\* As Refused, but a patch counts only when git apply's stderr holds neither
\* "already exists" nor "patch does not apply".
Failed(k) ==
    LET m == setup.met[k] IN
    IF setup.log[k] = "apply_patches"
    THEN \E i \in 1..Len(m) : m[i] = "error"
    ELSE IF setup.log[k] = "clone_repo" THEN m # <<>> /\ m[1] # 0
    ELSE m # <<>> /\ m[1] # "ok"

\* C3 as stated: setup aborts at the first step at which a command exits
\* non-zero, a download raises or git apply rejects a patch; no later step
\* runs, no step runs twice, the exception propagates and setup_complete
\* stays False.
C3_AbortOnAnyRejection ==
    /\ SetupOrderly
    /\ \A k \in 1..Len(setup.log) : Refused(k) => AbortedAt(k)

\* C3 amended: the same, except that a patch git apply rejects with "already
\* exists" or "patch does not apply" in its stderr is skipped and is not a
\* failure.
C3_AbortOnFailure ==
    /\ SetupOrderly
    /\ \A k \in 1..Len(setup.log) : Failed(k) => AbortedAt(k)

\* A call that stopped at apply_patches on a patch git apply could not read.
C3_Witness ==
    /\ setup.pc = "raised"
    /\ setup.log = <<"clone_repo", "apply_patches">>
    /\ Failed(2)

Provisioned(e) ==
    /\ e.repo = "cloned"
    /\ e.models = "full"
    /\ e.bones = "full"
    /\ e.venv = "installed"

\* C4: whenever setup_make_it_animatable has returned normally, and whenever
\* setup_complete is True, the repository is cloned, both downloads are
\* complete and the virtual environment has its requirements installed.
C4_ReturnedMeansProvisioned ==
    (setup.pc = "returned" \/ setup_complete) => Provisioned(env)

\* C5: once setup_complete is True it stays True, nothing on disk changes, no
\* step is executed, and a call that enters returns at once.
C5_OneTime ==
    [][setup_complete =>
        /\ setup_complete'
        /\ env' = env
        /\ setup'.log \in {setup.log, <<>>}
        /\ (setup.pc = "enter" => setup'.pc = "returned" /\ setup'.log = <<>>)]_vars

\* A later call that returned without executing a step.
C5_Witness ==
    /\ setup_complete
    /\ calls >= 2
    /\ setup.pc = "returned"
    /\ setup.log = <<>>

(***************************************************************************)
(* Claims about the entry point of server.py (under SpecServer)            *)
(***************************************************************************)
\* C1: the process exits with code 0 only when the output file has been
\* written at --output and nothing raised; when a statement of the try block
\* raised, it exits with code 1 and a traceback on stderr.
C1_ExitCode ==
    srv.pc = "exited" =>
        /\ (srv.rc = 0 => srv.wrote = "full" /\ srv.raised_at = "none")
        /\ (srv.raised_at # "none" => srv.rc = 1 /\ srv.stderr = "traceback")
        /\ srv.rc \in {0, 1}

\* The exit of a run whose conversion raised once the file was written.
C1_Witness ==
    /\ srv.pc = "exited"
    /\ srv.rc = 1
    /\ srv.raised_at = "fbx2glb"
    /\ srv.wrote = "full"

Position(seq, x) == CHOOSE i \in 1..Len(seq) : seq[i] = x

\* C9: the cleanup runs only after the pipeline has completed and before the
\* conversion or move; it removes the file of every set temp attribute whose
\* unlink does not raise, skips the others without raising, never removes
\* the file of db.anim_path, and does not run when the pipeline raised.
C9_Cleanup ==
    /\ "cleanup" \in Range(srv.log) =>
          /\ IsPrefix(<<"loads", "pipeline", "cleanup">>, srv.log)
          /\ srv.raised_at \notin {"loads", "pipeline", "cleanup"}
          /\ \A f \in TempFields :
                /\ (f \in srv.set /\ f \notin srv.unlink_failed) =>
                        (f \notin srv.disk /\ f \in srv.unlinked)
                /\ (f \notin srv.set \/ f \in srv.unlink_failed) =>
                        (f \notin srv.unlinked /\ (f \in srv.disk <=> f \in srv.set))
    /\ \A i \in 1..Len(srv.log) :
          srv.log[i] \in {"fbx2glb", "move"} =>
                "cleanup" \in Range(srv.log) /\ Position(srv.log, "cleanup") < i
    /\ "anim_path" \notin srv.unlinked
    /\ (srv.pc \in {"result", "fbx2glb", "move"} /\ "anim_path" \in srv.set) =>
          "anim_path" \in srv.disk
    /\ "cleanup" \notin Range(srv.log) =>
          (srv.unlinked = {} /\ srv.unlink_failed = {} /\ srv.disk = srv.set)

\* A run that exits 0 although one unlink raised and one attribute was unset.
C9_Witness ==
    /\ srv.pc = "exited"
    /\ srv.rc = 0
    /\ srv.unlink_failed # {}
    /\ srv.unlinked # {}
    /\ TempFields \ srv.set # {}

(***************************************************************************)
(* Claims about the nodes and run_make_it_animatable (under Spec)          *)
(***************************************************************************)
RunEnded == run.pc \in {"returned", "raised"}

\* C2: whenever the subprocess has ended with a non-zero exit code,
\* run_make_it_animatable raises RuntimeError and returns no path.
C2_NonZeroExitRaises ==
    (RunEnded /\ run.launched /\ srv.rc # 0) =>
        (run.pc = "raised" /\ run.exc = "RuntimeError" /\ run.result = <<>>)

AllowedKeys ==
    {"is_gs", "no_fingers", "input_normal", "bw_fix", "opacity_threshold", "inplace"}

\* C6: the command line is --input <input path> --output <output path>
\* --kwargs <JSON object>; the object's keys are among the six allowed; the
\* mesh node sends is_gs=false, no_fingers, input_normal, bw_fix and
\* inplace=false, the Gaussian-Splat node is_gs=true and all six keys; the
\* values are the node's inputs.
C6_CommandLine ==
    run.cmd # <<>> =>
        LET obj == json_loads(run.cmd[8])
            a == run.args
            common ==
                /\ obj["no_fingers"] = PyBool(a.no_fingers)
                /\ obj["input_normal"] = PyBool(a.use_normals)
                /\ obj["bw_fix"] = PyBool(a.weight_postprocess)
                /\ obj["inplace"] = PyBool(FALSE)
        IN  /\ Len(run.cmd) = 8
            /\ <<run.cmd[3], run.cmd[5], run.cmd[7]>> = <<"--input", "--output", "--kwargs">>
            /\ run.cmd[4] = strip(a.input_model_path)
            /\ run.cmd[6] = run.output_file
            /\ run.cmd[8].json = "object"
            /\ Len(run.cmd[8].members) = Cardinality(DOMAIN obj)
            /\ DOMAIN obj \subseteq AllowedKeys
            /\ run.node = "MakeItAnimatableRig" =>
                  /\ DOMAIN obj = AllowedKeys \ {"opacity_threshold"}
                  /\ obj["is_gs"] = PyBool(FALSE)
                  /\ common
            /\ run.node = "MakeItAnimatableRigGS" =>
                  /\ DOMAIN obj = AllowedKeys
                  /\ obj["is_gs"] = PyBool(TRUE)
                  /\ obj["opacity_threshold"] = PyFloat(a.opacity_threshold)
                  /\ common

\* The Gaussian-Splat node has launched the subprocess with inputs that
\* differ from one another.
C6_Witness ==
    /\ run.launched
    /\ run.node = "MakeItAnimatableRigGS"
    /\ run.args.no_fingers
    /\ ~run.args.use_normals
    /\ run.args.weight_postprocess
    /\ run.args.opacity_threshold = "0.5"
    /\ srv.argv.kwargs = run.cmd[8]

\* The input of the running call is empty once stripped, or names no regular
\* file.
InvalidInput ==
    /\ run.node # "none"
    /\ LET p == strip(run.args.input_model_path)
       IN  p = <<>> \/ p \notin RegularFiles

\* What C7 says in every case: on an invalid input the call gets no further
\* than the checks, launches nothing and deletes nothing; the subprocess is
\* launched only once setup has completed and the input is valid.
ValidatedBeforeLaunch ==
    /\ InvalidInput =>
          /\ run.pc \in {"check_input", "raised"}
          /\ ~run.launched
          /\ run.deleted = {}
    /\ run.launched =>
          /\ setup_complete
          /\ setup.pc = "returned"
          /\ ~InvalidInput

\* C7 as stated: on an invalid input run raises RuntimeError, launches
\* nothing and deletes no output file; the subprocess is launched only after
\* setup has completed and the input has passed both checks.
C7_InvalidInputRaisesRuntimeError ==
    /\ ValidatedBeforeLaunch
    /\ (InvalidInput /\ run.pc = "raised") => run.exc = "RuntimeError"

\* C7 amended: the exception is RuntimeError when setup returned normally;
\* when setup raised, run raises setup's exception, before any check.
C7_ValidateBeforeLaunch ==
    /\ ValidatedBeforeLaunch
    /\ (InvalidInput /\ run.pc = "raised") =>
          run.exc = IF setup.pc = "raised" THEN setup.exc ELSE "RuntimeError"

\* An invalid input was refused after setup, with an earlier result on disk.
C7_Witness ==
    /\ InvalidInput
    /\ run.pc = "raised"
    /\ run.exc = "RuntimeError"
    /\ setup.pc = "returned"
    /\ files # NoFiles

\* The input paths of the model without their last extension.
Stem(p) ==
    CASE p = <<"m", ".", "g", "l", "b">> -> <<"m">>
      [] p = <<"d", ".", "x", "/", "m">> -> <<"d", ".", "x", "/", "m">>
      [] p = <<"a", ".", "b", ".", "p", "l", "y">> -> <<"a", ".", "b">>
      [] p = <<".", "m">> -> <<".", "m">>

RiggedPath(p, gs) ==
    Stem(p) \o <<"_", "r", "i", "g", "g", "e", "d", ".">>
            \o (IF gs THEN <<"b", "l", "e", "n", "d">> ELSE <<"g", "l", "b">>)

\* C8: when run_make_it_animatable returns, the path returned is the input
\* path with its last extension replaced by _rigged.glb (mesh) or
\* _rigged.blend (Gaussian Splat), a file is there, and it was written during
\* this call: from the launch on, nothing written before this call is at the
\* output path.
C8_FreshOutput ==
    /\ run.pc = "returned" =>
          /\ run.result = RiggedPath(strip(run.args.input_model_path),
                                     run.node = "MakeItAnimatableRigGS")
          /\ run.result \in DOMAIN files
          /\ files[run.result].fresh
    /\ run.pc \in {"subprocess", "check_output", "returned"} =>
          /\ run.output_file \in DOMAIN files => files[run.output_file].fresh
          /\ run.launched \/ run.output_file \notin DOMAIN files

\* A call returned a file it wrote after deleting the result of an earlier
\* call at the same path.
C8_Witness ==
    /\ run.pc = "returned"
    /\ run.result \in run.deleted
    /\ files[run.result].fresh

(***************************************************************************)
(* Claims about fbx2glb (under SpecFbx)                                    *)
(***************************************************************************)
Ops(log) == [i \in 1..Len(log) |-> log[i][1]]
Ids(objects) == {objects[i].id : i \in 1..Len(objects)}
MeshesOf(objects) == {objects[i] : i \in {j \in 1..Len(objects) : objects[j].type = "MESH"}}
FbxObject(id) == bl.fbx[CHOOSE i \in 1..Len(bl.fbx) : bl.fbx[i].id = id]
TypeOf(id) == FbxObject(id).type

\* The materials on the meshes of the original file, empty slots aside.
OriginalMaterialNames ==
    UNION {Range(m.materials) : m \in MeshesOf(bl.original)} \ {"None"}

====
